---------------------------- MODULE Spec2Model ----------------------------
(***************************************************************************)
(* Healthcare blockchain (src/HEALTHCARE.py): Block, Blockchain and the    *)
(* tamper demonstration of the menu, as a state machine.                   *)
(*                                                                         *)
(* Python objects are modelled with their reference semantics: a record    *)
(* dict is an object on `heap`, and a Block stores a reference to it       *)
(* (Block.create stores the caller's dict, it does not copy it).           *)
(* A dict is a sequence of <<key, value>> pairs in insertion order.        *)
(* Python list positions are 0-based: position i of `chain` is chain[i+1]. *)
(* An Optional value is <<>> (None) or <<v>>.                              *)
(*                                                                         *)
(* SHA-256 is modelled as a collision-free digest: the digest of a string  *)
(* s is the string "sha256(s)".                                            *)
(***************************************************************************)
EXTENDS Integers, Sequences, FiniteSets, TLC

(* ------------------------------ bounds -------------------------------- *)

\* Largest len(chain) the model builds (genesis included).
MaxChain == 4

\* Largest len(chain) built in the behaviours with out-of-band mutations.
MaxTamperChain == 3

\* Largest number of out-of-band mutations in one behaviour.
MaxTamper == 2

\* Largest number of add_record calls the threads begin in one behaviour.
MaxWriterCalls == 3

\* Largest index compute_hash is applied to on its own.
MaxHashIndex == 1

\* Patient ids passed to add_record ("0" is also the genesis block's id).
PatientIds == {"0", "P1"}

\* Patient ids looked up: "P2" is never passed to add_record.
LookupIds == PatientIds \cup {"P2"}

\* The readings of the clock, in order: datetime.now() formatted by
\* isoformat(timespec="seconds"). Two appends may fall in the same second.
Timestamps == <<"2024-01-01T10:00:00", "2024-01-01T10:00:01">>

\* The values of a dict: a str, a nested dict, or a value json.dumps has no
\* encoding for (a set, say).
Str(s) == [str |-> s]
Obj(d) == [dict |-> d]
NotJson == [object |-> "set"]

\* Dict literals callers pass as `record`; RecB is RecA with the keys
\* inserted in the other order, RecBad cannot be serialized.
RecA == << <<"diagnosis", Str("flu")>>, <<"treatment", Str("rest")>> >>
RecB == << <<"treatment", Str("rest")>>, <<"diagnosis", Str("flu")>> >>
RecBad == << <<"diagnosis", Str("flu")>>, <<"notes", NotJson>> >>
Records == {RecA, RecB, RecBad}

\* Patient ids and dict literals passed to add_record in the behaviours
\* with mutations.
TamperPatientIds == {"P1"}
TamperRecords == {RecA}

\* The fields menu choice 6 accepts, and the fields and values entered:
\* "flu" is what RecA and RecB hold under "diagnosis", so that one entry
\* rewrites a value with itself, one changes a value and one adds a key.
TamperFields == {"diagnosis", "treatment", "notes"}
EnteredFields == TamperFields \cup {"patient_id"}
EnteredValues == {Str("flu")}

\* Records with a nested dict: the same mapping with the outer and the inner
\* keys inserted in either order, and one with another dose.
Drug12 == << <<"drug", Str("aspirin")>>, <<"dose", Str("1")>> >>
Drug21 == << <<"dose", Str("1")>>, <<"drug", Str("aspirin")>> >>
Drug22 == << <<"dose", Str("2")>>, <<"drug", Str("aspirin")>> >>
RecN(inner) == << <<"diagnosis", Str("flu")>>, <<"notes", Obj(inner)>> >>
RecM(inner) == << <<"notes", Obj(inner)>>, <<"diagnosis", Str("flu")>> >>

\* The arguments compute_hash is applied to.
HashIndices == 0..MaxHashIndex
HashRecords ==
    {RecA, RecB, RecN(Drug12), RecN(Drug21), RecM(Drug12), RecM(Drug21),
     RecN(Drug22)}
HashPrevious == {"0", "sha256({})"}

\* What a caller writes into a dict it passed, or a Block it was returned.
CallerValues == {Str("surgery")}
CallerPatientIds == {"P2"}

\* The threads that call add_record.
Writers == {"w1", "w2"}

\* The fields of a Block.
GenesisFields ==
    {"index", "timestamp", "patient_id", "record", "previous_hash", "hash"}

\* A value that is no digest of any block.
BadHash == "0"

None == <<>>
Some(v) == <<v>>

(* ------------------------------ dicts --------------------------------- *)

\* Byte-wise order of the keys that occur (json.dumps sort_keys=True).
KeyOrd(k) ==
    CASE k = "diagnosis" -> 1
      [] k = "dose" -> 2
      [] k = "drug" -> 3
      [] k = "note" -> 4
      [] k = "notes" -> 5
      [] k = "treatment" -> 6

DictKeys(d) == {d[n][1] : n \in 1..Len(d)}

\* d[k] for a key that is present.
DictGet(d, k) == d[CHOOSE n \in 1..Len(d) : d[n][1] = k][2]

\* d[k] = v: an existing key keeps its place, a new key goes last.
DictSet(d, k, v) ==
    IF k \in DictKeys(d)
    THEN [n \in 1..Len(d) |-> IF d[n][1] = k THEN <<k, v>> ELSE d[n]]
    ELSE Append(d, <<k, v>>)

\* Equality of two dicts as mappings (Python's ==), nested dicts included.
RECURSIVE DictEq(_, _)
DictEq(d, e) ==
    /\ DictKeys(d) = DictKeys(e)
    /\ \A k \in DictKeys(d) :
          LET v == DictGet(d, k)
              w == DictGet(e, k)
          IN  IF "dict" \in DOMAIN v /\ "dict" \in DOMAIN w
              THEN DictEq(v.dict, w.dict)
              ELSE v = w

(* --------------------------- serialization ---------------------------- *)

\* json.dumps of a str. The strings of the model hold nothing json.dumps
\* escapes, but for the digests, which stand for 64 hexadecimal digits.
JsonStr(s) == "\"" \o s \o "\""

\* Faulty variant: sort_keys is left out, the pairs come in insertion order.
InsertionItems(d, keys) == d

\* The pairs of d in increasing key order.
RECURSIVE SortedItems(_, _)
SortedItems(d, keys) ==
    IF keys = {} THEN <<>>
    ELSE LET k == CHOOSE x \in keys : \A y \in keys : KeyOrd(x) <= KeyOrd(y)
         IN  <<<<k, DictGet(d, k)>>>> \o SortedItems(d, keys \ {k})

\* Whether json.dumps has an encoding for every value of d, at every level;
\* it raises TypeError otherwise.
RECURSIVE JsonSerializable(_)
JsonSerializable(d) ==
    \A n \in 1..Len(d) :
        \/ "str" \in DOMAIN d[n][2]
        \/ "dict" \in DOMAIN d[n][2] /\ JsonSerializable(d[n][2].dict)

RECURSIVE JsonDict(_)

\* json.dumps of a value: a str, or a nested dict with its keys sorted too.
JsonValue(v) ==
    IF "str" \in DOMAIN v THEN JsonStr(v.str) ELSE JsonDict(v.dict)

RECURSIVE JoinItems(_)
JoinItems(items) ==
    IF items = <<>> THEN ""
    ELSE JsonStr(items[1][1]) \o ":" \o JsonValue(items[1][2])
         \o (IF Len(items) > 1 THEN "," ELSE "") \o JoinItems(Tail(items))

\* json.dumps(d, sort_keys=True, separators=(",", ":")) of a record dict.
JsonDict(d) == "{" \o JoinItems(SortedItems(d, DictKeys(d))) \o "}"

\* hashlib.sha256(s.encode("utf-8")).hexdigest(), collision-free.
Sha256Hex(s) == "sha256(" \o s \o ")"

\* Block.compute_hash: the payload's own keys are sorted too.
compute_hash(index, timestamp, patient_id, record, previous_hash) ==
    LET block_string ==
            "{\"index\":" \o ToString(index)
            \o ",\"patient_id\":" \o JsonStr(patient_id)
            \o ",\"previous_hash\":" \o JsonStr(previous_hash)
            \o ",\"record\":" \o JsonDict(record)
            \o ",\"timestamp\":" \o JsonStr(timestamp) \o "}"
    IN  Sha256Hex(block_string)

(* ------------------------------- state -------------------------------- *)

VARIABLES
    chain,          \* Blockchain.chain: the list of Blocks
    heap,           \* the record dicts: heap[r] is the dict with reference r
    patient_index,  \* Blockchain._patient_index: patient_id -> list of indices
    ret,            \* the last call and what it returned
    now,            \* the clock: Timestamps[now] is what datetime.now() gives
    calls,          \* history: the add_record calls that returned, in order
    tlog,           \* history: the out-of-band mutations made, in order
    writers,        \* per thread in add_record: its position and its locals
    overlapped      \* history: an add_record call began during another one

vars == <<chain, heap, patient_index, ret, now, calls, tlog, writers,
          overlapped>>

threads == <<writers, overlapped>>

\* A thread that is not inside add_record.
Idle == [pc |-> "idle", patient_id |-> "", record |-> 0, latest_hash |-> "",
         new_block |-> None]

\* The dict a block's `record` refers to.
RecordOf(h, b) == h[b.record]

\* Block.create, given the clock's reading; `record` is a reference.
create(index, patient_id, record, previous_hash, timestamp, h) ==
    [index |-> index, timestamp |-> timestamp, patient_id |-> patient_id,
     record |-> record, previous_hash |-> previous_hash,
     hash |-> compute_hash(index, timestamp, patient_id, h[record],
                           previous_hash)]

GenesisRecord == << <<"note", Str("Genesis Block")>> >>

\* Faulty variant: the genesis block is given no previous_hash.
create_genesis_block_unlinked(timestamp, h) ==
    create(0, "0", 1, "", timestamp, h)

\* Blockchain._create_genesis_block
create_genesis_block(timestamp, h) == create(0, "0", 1, "0", timestamp, h)

EmptyIndex == [p \in {} |-> <<>>]

\* Blockchain.__init__
Init ==
    /\ heap = <<GenesisRecord>>
    /\ now = 1
    /\ chain = <<create_genesis_block(Timestamps[now], heap)>>
    /\ patient_index = EmptyIndex
    /\ ret = [op |-> "init", pid |-> "", val |-> None]
    /\ calls = <<>>
    /\ tlog = <<>>
    /\ writers = [w \in Writers |-> Idle]
    /\ overlapped = FALSE

(* ----------------------------- write path ----------------------------- *)

\* Faulty variant: the genesis block's hash, self.chain[0].hash.
LatestHashFirst(c) == c[1].hash

\* self.chain[-1].hash
LatestHash(c) == c[Len(c)].hash

\* Faulty variant: the last block's index, len(self.chain) - 1.
NewIndexLast(c) == Len(c) - 1

\* index=len(self.chain)
NewIndex(c) == Len(c)

\* Faulty variant: self._patient_index[patient_id] = [index].
IndexOverwrite(pi, patient_id, index) ==
    [p \in DOMAIN pi \cup {patient_id} |->
        IF p = patient_id THEN <<index>> ELSE pi[p]]

\* Faulty variant: the index is rebuilt with the one entry.
IndexReset(pi, patient_id, index) ==
    [p \in {patient_id} |->
        (IF patient_id \in DOMAIN pi THEN pi[patient_id] ELSE <<>>)
        \o <<index>>]

\* self._patient_index.setdefault(patient_id, []).append(index)
IndexAppend(pi, patient_id, index) ==
    IF patient_id \in DOMAIN pi
    THEN [pi EXCEPT ![patient_id] = Append(@, index)]
    ELSE [p \in DOMAIN pi \cup {patient_id} |->
             IF p = patient_id THEN <<index>> ELSE pi[p]]

\* add_record left by the TypeError json.dumps raises in compute_hash,
\* called by Block.create before anything is stored.
add_record_raises(patient_id) ==
    /\ ret' = [op |-> "add_record_raised", pid |-> patient_id,
               val |-> "TypeError"]
    /\ UNCHANGED <<chain, heap, patient_index, now, calls, tlog, threads>>

\* Faulty variant: the index entry is made before the block is built.
add_record_index_first(patient_id, record, timestamp, h) ==
    IF ~JsonSerializable(h[record])
    THEN /\ ret' = [op |-> "add_record_raised", pid |-> patient_id,
                    val |-> "TypeError"]
         /\ patient_index' =
                [p \in DOMAIN patient_index \cup {patient_id} |->
                    IF p \in DOMAIN patient_index THEN patient_index[p]
                    ELSE <<>>]
         /\ UNCHANGED <<chain, heap, now, calls, tlog, threads>>
    ELSE LET new_block == create(Len(chain), patient_id, record,
                                 chain[Len(chain)].hash, timestamp, h)
         IN  /\ chain' = Append(chain, new_block)
             /\ patient_index' =
                    [p \in DOMAIN patient_index \cup {patient_id} |->
                        (IF p \in DOMAIN patient_index THEN patient_index[p]
                         ELSE <<>>)
                        \o (IF p = patient_id THEN <<new_block.index>>
                            ELSE <<>>)]
             /\ heap' = h
             /\ ret' = [op |-> "add_record", pid |-> patient_id,
                        val |-> new_block]
             /\ calls' = Append(calls, [patient_id |-> patient_id,
                                        record |-> record,
                                        block |-> new_block])
             /\ UNCHANGED <<now, tlog, threads>>

\* Blockchain.add_record(patient_id, record), record a reference into h.
add_record(patient_id, record, timestamp, h) ==
    IF ~JsonSerializable(h[record])
    THEN add_record_raises(patient_id)
    ELSE LET latest_hash == LatestHash(chain)
             new_block == create(NewIndex(chain), patient_id, record,
                                 latest_hash, timestamp, h)
         IN  /\ chain' = Append(chain, new_block)
             /\ patient_index' = IndexAppend(patient_index, patient_id,
                                             new_block.index)
             /\ heap' = h
             /\ ret' = [op |-> "add_record", pid |-> patient_id,
                        val |-> new_block]
             /\ calls' = Append(calls, [patient_id |-> patient_id,
                                        record |-> record,
                                        block |-> new_block])
             /\ UNCHANGED <<now, tlog, threads>>

\* add_record with a dict the caller has just built.
AddRecordFresh(pids, records, maxlen) ==
    /\ Len(chain) < maxlen
    /\ \E pid \in pids, d \in records :
          add_record(pid, Len(heap) + 1, Timestamps[now], Append(heap, d))

\* add_record with a dict the caller has passed to it before (the same
\* object again).
AddRecordShared(pids, maxlen) ==
    /\ Len(chain) < maxlen
    /\ \E pid \in pids, r \in {calls[n].record : n \in 1..Len(calls)} :
          add_record(pid, r, Timestamps[now], heap)

(* ------------------------------ read path ----------------------------- *)

\* Faulty variant: the blocks in reverse order.
get_all_records_reversed(pi, c, patient_id) ==
    IF patient_id \notin DOMAIN pi THEN <<>>
    ELSE LET indices == pi[patient_id]
         IN  [n \in 1..Len(indices) |-> c[indices[Len(indices) + 1 - n] + 1]]

\* Blockchain.get_all_records
get_all_records(pi, c, patient_id) ==
    LET indices == IF patient_id \in DOMAIN pi THEN Some(pi[patient_id])
                   ELSE None
    IN  IF indices = None \/ indices[1] = <<>> THEN <<>>
        ELSE [n \in 1..Len(indices[1]) |-> c[indices[1][n] + 1]]

\* Faulty variant: blocks[0] instead of blocks[-1].
get_latest_record_first(pi, c, patient_id) ==
    IF patient_id \notin DOMAIN pi THEN None
    ELSE Some(c[pi[patient_id][1] + 1])

\* Blockchain.get_latest_record
get_latest_record(pi, c, patient_id) ==
    LET blocks == get_all_records(pi, c, patient_id)
    IN  IF blocks /= <<>> THEN Some(blocks[Len(blocks)]) ELSE None

\* Faulty variant: the lookup is made with setdefault(patient_id, []).
IndexSetdefault(pi, patient_id) ==
    [p \in DOMAIN pi \cup {patient_id} |->
        IF p \in DOMAIN pi THEN pi[p] ELSE <<>>]

\* _patient_index after self._patient_index.get(patient_id, []): as before.
IndexGet(pi, patient_id) == pi

GetAllRecords ==
    /\ \E pid \in LookupIds :
          /\ ret' = [op |-> "get_all_records", pid |-> pid,
                     val |-> get_all_records(patient_index, chain, pid)]
          /\ patient_index' = IndexGet(patient_index, pid)
    /\ UNCHANGED <<chain, heap, now, calls, tlog, threads>>

GetLatestRecord ==
    /\ \E pid \in LookupIds :
          /\ ret' = [op |-> "get_latest_record", pid |-> pid,
                     val |-> get_latest_record(patient_index, chain, pid)]
          /\ patient_index' = IndexGet(patient_index, pid)
    /\ UNCHANGED <<chain, heap, now, calls, tlog, threads>>

(* --------------------------- chain integrity -------------------------- *)

BrokenLinkMsg(i) ==
    "Broken link at index " \o ToString(i) \o ": previous_hash mismatch"

HashMismatchMsg(i) ==
    "Hash mismatch at index " \o ToString(i) \o ": data was modified"

\* Faulty variant: the predecessor's previous_hash is compared.
LinkBrokenWrongField(prev, cur) == cur.previous_hash /= prev.previous_hash

\* cur.previous_hash != prev.hash
LinkBroken(prev, cur) == cur.previous_hash /= prev.hash

\* cur.hash != recalculated
HashMismatch(cur, h) ==
    cur.hash /= compute_hash(cur.index, cur.timestamp, cur.patient_id,
                             RecordOf(h, cur), cur.previous_hash)

\* Faulty variant: the hash is recomputed before the link is checked.
RECURSIVE ValidateIntegrityFirst(_, _, _)
ValidateIntegrityFirst(i, c, h) ==
    IF i >= Len(c) THEN <<TRUE, None>>
    ELSE IF HashMismatch(c[i + 1], h)
    THEN <<FALSE, Some(HashMismatchMsg(i))>>
    ELSE IF LinkBroken(c[i], c[i + 1])
    THEN <<FALSE, Some(BrokenLinkMsg(i))>>
    ELSE ValidateIntegrityFirst(i + 1, c, h)

\* The body of validate's loop at position i, then the rest of the loop.
RECURSIVE ValidateFrom(_, _, _)
ValidateFrom(i, c, h) ==
    IF i >= Len(c) THEN <<TRUE, None>>
    ELSE LET prev == c[i]
             cur == c[i + 1]
         IN  IF LinkBroken(prev, cur)
             THEN <<FALSE, Some(BrokenLinkMsg(i))>>
             ELSE IF HashMismatch(cur, h)
             THEN <<FALSE, Some(HashMismatchMsg(i))>>
             ELSE ValidateFrom(i + 1, c, h)

\* Faulty variant: the loop does not return at the first failure and reports the
\* last one.
RECURSIVE ValidateLast(_, _, _, _)
ValidateLast(i, c, h, found) ==
    IF i >= Len(c) THEN found
    ELSE ValidateLast(i + 1, c, h,
            IF LinkBroken(c[i], c[i + 1])
            THEN <<FALSE, Some(BrokenLinkMsg(i))>>
            ELSE IF HashMismatch(c[i + 1], h)
            THEN <<FALSE, Some(HashMismatchMsg(i))>>
            ELSE found)

validate_last(c, h) == ValidateLast(1, c, h, <<TRUE, None>>)

\* Faulty variant: only the newest block is checked.
validate_tail(c, h) ==
    IF Len(c) < 2 THEN <<TRUE, None>> ELSE ValidateFrom(Len(c) - 1, c, h)

\* Faulty variant: the loop starts at the genesis block and recomputes its
\* hash too.
validate_genesis(c, h) ==
    IF HashMismatch(c[1], h) THEN <<FALSE, Some(HashMismatchMsg(0))>>
    ELSE ValidateFrom(1, c, h)

\* Blockchain.validate: for i in range(1, len(self.chain))
validate(c, h) == ValidateFrom(1, c, h)

Validate ==
    /\ ret' = [op |-> "validate", pid |-> "", val |-> validate(chain, heap)]
    /\ UNCHANGED <<chain, heap, patient_index, now, calls, tlog, threads>>

(* ---------------------------- specification --------------------------- *)

\* A second passes on the clock.
Tick ==
    /\ now < Len(Timestamps)
    /\ now' = now + 1
    /\ UNCHANGED <<chain, heap, patient_index, ret, calls, tlog, threads>>

Next ==
    \/ Tick
    \/ AddRecordFresh(PatientIds, Records, MaxChain)
    \/ AddRecordShared(PatientIds, MaxChain)
    \/ GetAllRecords
    \/ GetLatestRecord
    \/ Validate

Spec == Init /\ [][Next]_vars

(* ----------------------- out-of-band mutations ------------------------ *)

\* menu, choice 6: bc.chain[idx].record[field] = value, after the checks of
\* idx and field. The dict is mutated in place: every block that refers to
\* it sees the change.
MenuTamper ==
    /\ Len(tlog) < MaxTamper
    /\ \E idx \in 0..Len(chain), field \in EnteredFields,
          value \in EnteredValues :
          IF idx <= 0 \/ idx >= Len(chain)
          THEN /\ ret' = [op |-> "tamper", pid |-> "",
                          val |-> "Invalid index."]
               /\ UNCHANGED <<chain, heap, patient_index, now, calls, tlog,
                              threads>>
          ELSE IF field \notin TamperFields
          THEN /\ ret' = [op |-> "tamper", pid |-> "",
                          val |-> "Unsupported field."]
               /\ UNCHANGED <<chain, heap, patient_index, now, calls, tlog,
                              threads>>
          ELSE LET r == chain[idx + 1].record
                   d == DictSet(heap[r], field, value)
               IN  /\ heap' = [heap EXCEPT ![r] = d]
                   /\ ret' = [op |-> "tamper", pid |-> "",
                              val |-> "Tampered block " \o ToString(idx)
                                      \o ". Now validate to see failure."]
                   /\ tlog' = Append(tlog,
                                 [kind |-> "record", index |-> idx,
                                  len |-> Len(chain),
                                  changed |-> ~DictEq(d, heap[r])])
                   /\ UNCHANGED <<chain, patient_index, now, calls, threads>>

\* chain[idx].previous_hash = v, for a block after the genesis block: to a
\* value that is no digest, or to the hash its predecessor now stores. The
\* write changes the field.
TamperPreviousHash ==
    /\ Len(tlog) < MaxTamper
    /\ \E idx \in 1..Len(chain) - 1 :
       \E v \in {BadHash, chain[idx].hash} :
          /\ v /= chain[idx + 1].previous_hash
          /\ chain' = [chain EXCEPT ![idx + 1].previous_hash = v]
          /\ ret' = [op |-> "tamper", pid |-> "", val |-> "previous_hash"]
          /\ tlog' = Append(tlog,
                        [kind |-> "previous_hash", index |-> idx,
                         len |-> Len(chain),
                         changed |-> v /= chain[idx + 1].previous_hash])
          /\ UNCHANGED <<heap, patient_index, now, calls, threads>>

\* chain[idx].hash = v, for a block after the genesis block: to a value that
\* is no digest, or to the digest of the fields the block now stores. The
\* write changes the field.
TamperHash ==
    /\ Len(tlog) < MaxTamper
    /\ \E idx \in 1..Len(chain) - 1 :
       \E v \in {BadHash,
                 LET b == chain[idx + 1]
                 IN  compute_hash(b.index, b.timestamp, b.patient_id,
                                  RecordOf(heap, b), b.previous_hash)} :
          /\ v /= chain[idx + 1].hash
          /\ chain' = [chain EXCEPT ![idx + 1].hash = v]
          /\ ret' = [op |-> "tamper", pid |-> "", val |-> "hash"]
          /\ tlog' = Append(tlog,
                        [kind |-> "hash", index |-> idx,
                         len |-> Len(chain),
                         changed |-> v /= chain[idx + 1].hash])
          /\ UNCHANGED <<heap, patient_index, now, calls, threads>>

NextTamper ==
    \/ AddRecordFresh(TamperPatientIds, TamperRecords, MaxTamperChain)
    \/ AddRecordShared(TamperPatientIds, MaxTamperChain)
    \/ Validate
    \/ MenuTamper
    \/ TamperPreviousHash
    \/ TamperHash

SpecTamper == Init /\ [][NextTamper]_vars

\* A write to a field of the genesis block that changes it: chain[0].index,
\* .timestamp, .patient_id, .previous_hash, .hash, or an entry of
\* chain[0].record.
TamperGenesis ==
    /\ Len(tlog) < MaxTamper
    /\ \E field \in GenesisFields :
          /\ CASE field = "index" ->
                    /\ chain[1].index /= 1
                    /\ chain' = [chain EXCEPT ![1].index = 1]
                    /\ heap' = heap
                [] field = "timestamp" ->
                    /\ chain[1].timestamp /= Timestamps[2]
                    /\ chain' = [chain EXCEPT ![1].timestamp = Timestamps[2]]
                    /\ heap' = heap
                [] field = "patient_id" ->
                    /\ chain[1].patient_id /= "P1"
                    /\ chain' = [chain EXCEPT ![1].patient_id = "P1"]
                    /\ heap' = heap
                [] field = "previous_hash" ->
                    /\ chain[1].previous_hash /= "1"
                    /\ chain' = [chain EXCEPT ![1].previous_hash = "1"]
                    /\ heap' = heap
                [] field = "hash" ->
                    /\ chain[1].hash /= BadHash
                    /\ chain' = [chain EXCEPT ![1].hash = BadHash]
                    /\ heap' = heap
                [] field = "record" ->
                    LET r == chain[1].record
                        d == DictSet(heap[r], "note", Str("flu"))
                    IN  /\ ~DictEq(d, heap[r])
                        /\ heap' = [heap EXCEPT ![r] = d]
                        /\ chain' = chain
          /\ ret' = [op |-> "tamper", pid |-> "", val |-> field]
          /\ tlog' = Append(tlog, [kind |-> "genesis_" \o field, index |-> 0,
                                   len |-> Len(chain), changed |-> TRUE])
    /\ UNCHANGED <<patient_index, now, calls, threads>>

NextGenesis ==
    \/ AddRecordFresh(TamperPatientIds, TamperRecords, MaxTamperChain)
    \/ Validate
    \/ TamperGenesis

SpecGenesis == Init /\ [][NextGenesis]_vars

\* The menu's add, validate and tamper choices.
NextMenu ==
    \/ AddRecordFresh(TamperPatientIds, TamperRecords, MaxTamperChain)
    \/ Validate
    \/ MenuTamper

SpecMenu == Init /\ [][NextMenu]_vars

\* Lookups and validation of a chain the menu tampers with.
NextRead ==
    \/ AddRecordFresh(TamperPatientIds, TamperRecords, MaxTamperChain)
    \/ MenuTamper
    \/ GetAllRecords
    \/ GetLatestRecord
    \/ Validate

SpecRead == Init /\ [][NextRead]_vars

(* ---------------------- add_record, line by line ---------------------- *)

\* The threads inside add_record.
Active == {w \in Writers : writers[w].pc /= "idle"}

\* Thread w calls add_record(patient_id, record) with a dict it has built.
Call(w) ==
    /\ writers[w].pc = "idle"
    /\ Len(calls) + Cardinality(Active) < MaxWriterCalls
    /\ \E patient_id \in TamperPatientIds, d \in TamperRecords :
          /\ heap' = Append(heap, d)
          /\ writers' = [writers EXCEPT ![w] =
                            [Idle EXCEPT !.pc = "latest_hash",
                                         !.patient_id = patient_id,
                                         !.record = Len(heap) + 1]]
    /\ overlapped' = (overlapped \/ Active /= {})
    /\ UNCHANGED <<chain, patient_index, ret, now, calls, tlog>>

\* latest_hash = self.chain[-1].hash
ReadLatestHash(w) ==
    /\ writers[w].pc = "latest_hash"
    /\ writers' = [writers EXCEPT ![w].latest_hash = LatestHash(chain),
                                  ![w].pc = "create"]
    /\ UNCHANGED <<chain, heap, patient_index, ret, now, calls, tlog,
                   overlapped>>

\* new_block = Block.create(index=len(self.chain), ...)
CreateBlock(w) ==
    /\ writers[w].pc = "create"
    /\ writers' = [writers EXCEPT
                      ![w].new_block =
                          Some(create(NewIndex(chain), writers[w].patient_id,
                                      writers[w].record,
                                      writers[w].latest_hash,
                                      Timestamps[now], heap)),
                      ![w].pc = "append"]
    /\ UNCHANGED <<chain, heap, patient_index, ret, now, calls, tlog,
                   overlapped>>

\* self.chain.append(new_block)
AppendBlock(w) ==
    /\ writers[w].pc = "append"
    /\ chain' = Append(chain, writers[w].new_block[1])
    /\ writers' = [writers EXCEPT ![w].pc = "index"]
    /\ UNCHANGED <<heap, patient_index, ret, now, calls, tlog, overlapped>>

\* self._patient_index.setdefault(...).append(new_block.index), and
\* return new_block
UpdateIndex(w) ==
    /\ writers[w].pc = "index"
    /\ LET new_block == writers[w].new_block[1]
       IN  /\ patient_index' = IndexAppend(patient_index,
                                           writers[w].patient_id,
                                           new_block.index)
           /\ ret' = [op |-> "add_record", pid |-> writers[w].patient_id,
                      val |-> new_block]
           /\ calls' = Append(calls, [patient_id |-> writers[w].patient_id,
                                      record |-> writers[w].record,
                                      block |-> new_block])
    /\ writers' = [writers EXCEPT ![w] = Idle]
    /\ UNCHANGED <<chain, heap, now, tlog, overlapped>>

NextWriters ==
    \/ \E w \in Writers : Call(w)
    \/ \E w \in Writers : ReadLatestHash(w)
    \/ \E w \in Writers : CreateBlock(w)
    \/ \E w \in Writers : AppendBlock(w)
    \/ \E w \in Writers : UpdateIndex(w)
    \/ Validate

SpecWriters == Init /\ [][NextWriters]_vars

(* ------------------------- compute_hash on its own ------------------- *)

\* A fresh Blockchain, and the arguments of a call of Block.compute_hash.
InitHash ==
    /\ heap = <<GenesisRecord>>
    /\ now = 1
    /\ chain = <<create_genesis_block(Timestamps[now], heap)>>
    /\ patient_index = EmptyIndex
    /\ calls = <<>>
    /\ tlog = <<>>
    /\ writers = [w \in Writers |-> Idle]
    /\ overlapped = FALSE
    /\ \E index \in HashIndices, t \in 1..Len(Timestamps),
          patient_id \in PatientIds, record \in HashRecords,
          previous_hash \in HashPrevious :
          ret = [op |-> "args", pid |-> patient_id,
                 val |-> [index |-> index, timestamp |-> Timestamps[t],
                          record |-> record,
                          previous_hash |-> previous_hash]]

\* Block.compute_hash(index, timestamp, patient_id, record, previous_hash)
ComputeHash ==
    /\ ret.op = "args"
    /\ ret' = [op |-> "compute_hash", pid |-> ret.pid,
               val |-> [args |-> ret.val,
                        digest |-> compute_hash(ret.val.index,
                                                ret.val.timestamp, ret.pid,
                                                ret.val.record,
                                                ret.val.previous_hash)]]
    /\ UNCHANGED <<chain, heap, patient_index, now, calls, tlog, threads>>

\* The caller builds the same mapping again, its keys inserted in another
\* order, for the next call.
Reinsert ==
    /\ ret.op = "compute_hash"
    /\ \E record \in HashRecords :
          /\ record /= ret.val.args.record
          /\ DictEq(record, ret.val.args.record)
          /\ ret' = [op |-> "args", pid |-> ret.pid,
                     val |-> [ret.val.args EXCEPT !.record = record]]
    /\ UNCHANGED <<chain, heap, patient_index, now, calls, tlog, threads>>

NextHash ==
    \/ ComputeHash
    \/ Reinsert

SpecHash == InitHash /\ [][NextHash]_vars

(* ------------------------- the caller's references -------------------- *)

\* The caller assigns to a key of a dict it has passed to add_record:
\* r[field] = value. Block.create stored r itself, so the block sees it.
CallerMutatesRecord ==
    /\ Len(tlog) < MaxTamper
    /\ \E n \in 1..Len(calls), field \in TamperFields,
          value \in CallerValues :
          LET r == calls[n].record
              d == DictSet(heap[r], field, value)
          IN  /\ heap' = [heap EXCEPT ![r] = d]
              /\ ret' = [op |-> "caller", pid |-> "", val |-> "record"]
              /\ tlog' = Append(tlog,
                            [kind |-> "caller_record",
                             index |-> calls[n].block.index,
                             len |-> Len(chain),
                             changed |-> ~DictEq(d, heap[r])])
              /\ UNCHANGED <<chain, patient_index, now, calls, threads>>

\* The Blocks the last call returned: add_record returns the Block it
\* appended, the lookups return the Blocks of the chain themselves.
Returned ==
    CASE ret.op = "add_record" -> {ret.val}
      [] ret.op = "get_latest_record" ->
            {ret.val[n] : n \in 1..Len(ret.val)}
      [] ret.op = "get_all_records" ->
            {ret.val[n] : n \in 1..Len(ret.val)}
      [] OTHER -> {}

\* The caller assigns to a field of a Block it was returned:
\* block.patient_id = value. The Block is the chain's own object.
CallerMutatesBlock ==
    /\ Len(tlog) < MaxTamper
    /\ \E b \in Returned, value \in CallerPatientIds :
          /\ chain' = [chain EXCEPT ![b.index + 1].patient_id = value]
          /\ ret' = [op |-> "caller", pid |-> "", val |-> "block"]
          /\ tlog' = Append(tlog,
                        [kind |-> "caller_block", index |-> b.index,
                         len |-> Len(chain),
                         changed |-> value /= chain[b.index + 1].patient_id])
          /\ UNCHANGED <<heap, patient_index, now, calls, threads>>

NextCaller ==
    \/ AddRecordFresh(TamperPatientIds, TamperRecords, MaxTamperChain)
    \/ GetAllRecords
    \/ GetLatestRecord
    \/ Validate
    \/ CallerMutatesRecord
    \/ CallerMutatesBlock

SpecCaller == Init /\ [][NextCaller]_vars

(* ------------------------------ properties ---------------------------- *)

\* The hash recomputed from the fields block b stores.
Recomputed(b) ==
    compute_hash(b.index, b.timestamp, b.patient_id, RecordOf(heap, b),
                 b.previous_hash)

\* The positions after the genesis block.
Positions == 1..Len(chain) - 1

\* C1. Chain linkage: after any number of add_record calls, every block
\* after the genesis block stores its predecessor's hash as previous_hash,
\* and its hash is compute_hash of the fields it stores.
ChainLinkage ==
    \A i \in Positions :
        /\ chain[i + 1].previous_hash = chain[i].hash
        /\ chain[i + 1].hash = Recomputed(chain[i + 1])

ChainLinkageWitness ==
    /\ ret.op = "add_record"
    /\ Len(chain) >= 3

\* C2. Validation soundness: on a chain built by Blockchain() and any number
\* of add_record calls (none included), validate() returns (True, None).
ValidationSound ==
    ret.op = "validate" => ret.val = <<TRUE, None>>

ValidationSoundWitness ==
    /\ ret.op = "validate"
    /\ ret.val = <<TRUE, None>>
    /\ Len(chain) >= 3

\* The increasing sequence of the positions from `from` on whose block
\* carries patient id p.
RECURSIVE PositionsOf(_, _, _)
PositionsOf(c, p, from) ==
    IF from >= Len(c) THEN <<>>
    ELSE (IF c[from + 1].patient_id = p THEN <<from>> ELSE <<>>)
         \o PositionsOf(c, p, from + 1)

\* The mapping a single scan of c from position `from` collects.
ScanIndex(c, from) ==
    [p \in {c[i + 1].patient_id : i \in from..Len(c) - 1} |->
        PositionsOf(c, p, from)]

\* C5, as stated. The patient index equals the mapping collected by scanning
\* chain from position 0.
IndexIsScanFromGenesis == patient_index = ScanIndex(chain, 0)

\* C5, amended. The patient index equals the mapping collected by scanning
\* chain from position 1: the genesis block is not indexed.
IndexIsScanAfterGenesis == patient_index = ScanIndex(chain, 1)

IndexIsScanWitness ==
    /\ Len(chain) >= 4
    /\ "0" \in DOMAIN patient_index
    /\ \E p \in DOMAIN patient_index : Len(patient_index[p]) >= 2

\* The add_record calls made with patient id p, in order.
CallsFor(p) == SelectSeq(calls, LAMBDA call : call.patient_id = p)

\* C6. Lookup correctness: get_all_records(p) returns the blocks the
\* add_record(p, _) calls created, each once and in the order of the calls,
\* with strictly increasing index; none for a p that was never added.
LookupCorrect ==
    ret.op = "get_all_records" =>
        LET made == CallsFor(ret.pid)
        IN  /\ ret.val = [n \in 1..Len(made) |-> made[n].block]
            /\ \A m, n \in 1..Len(ret.val) :
                   m < n => ret.val[m].index < ret.val[n].index
            /\ made = <<>> => ret.val = <<>>

LookupCorrectWitness ==
    /\ ret.op = "get_all_records"
    /\ Len(ret.val) >= 2
    /\ Len(calls) > Len(ret.val)

\* C7. get_latest_record(p) returns the last element of get_all_records(p),
\* which is the block of the latest add_record(p, _) call, and None when p
\* has no entries.
LatestCorrect ==
    ret.op = "get_latest_record" =>
        LET all == get_all_records(patient_index, chain, ret.pid)
            made == CallsFor(ret.pid)
        IN  /\ all /= <<>> => ret.val = Some(all[Len(all)])
            /\ made /= <<>> => ret.val = Some(made[Len(made)].block)
            /\ (all = <<>> \/ made = <<>>) => ret.val = None

LatestCorrectWitness ==
    /\ ret.op = "get_latest_record"
    /\ Len(CallsFor(ret.pid)) >= 2
    /\ ret.val /= None

\* A step that is a call of add_record.
IsAddRecord == calls' /= calls

\* C8. Append-only: add_record(p, r) makes the chain one longer, leaves every
\* stored block where it was with its six fields unchanged, and changes the
\* patient index only by appending the new block's index to p's entry.
AppendOnly ==
    [][IsAddRecord =>
        LET p == calls'[Len(calls')].patient_id
            old == IF p \in DOMAIN patient_index THEN patient_index[p]
                   ELSE <<>>
        IN  /\ Len(chain') = Len(chain) + 1
            /\ \A n \in 1..Len(chain) :
                   /\ chain'[n] = chain[n]
                   /\ RecordOf(heap', chain'[n]) = RecordOf(heap, chain[n])
            /\ DOMAIN patient_index' = DOMAIN patient_index \cup {p}
            /\ patient_index'[p] = Append(old, chain'[Len(chain')].index)
            /\ \A q \in DOMAIN patient_index \ {p} :
                   patient_index'[q] = patient_index[q]
      ]_vars

AppendOnlyWitness ==
    /\ ret.op = "add_record"
    /\ Len(chain) >= 4
    /\ Cardinality(DOMAIN patient_index) >= 2
    /\ Len(patient_index[ret.pid]) >= 2

\* C9. Sequential indices: the block at position i has index i, so the block
\* add_record returns has the index the chain length had before the call,
\* one more than the index of the block before it.
SequentialIndices ==
    /\ \A i \in 0..Len(chain) - 1 : chain[i + 1].index = i
    /\ ret.op = "add_record" =>
           /\ ret.val.index = Len(chain) - 1
           /\ ret.val.index = chain[Len(chain) - 1].index + 1

SequentialIndicesWitness ==
    /\ ret.op = "add_record"
    /\ ret.val.index = 3

\* validate() has just run on a chain whose only out-of-band mutation was of
\* the given kind and changed the value it wrote to.
ValidatedAfterOne(kind) ==
    /\ ret.op = "validate"
    /\ Len(tlog) = 1
    /\ tlog[1].kind = kind
    /\ tlog[1].changed

\* C3. Tamper detection: after the record of the block at position i >= 1 of
\* an untampered chain is mutated and its hash left as stored, validate()
\* returns ok=false with the hash-mismatch reason naming index i.
TamperDetection ==
    ValidatedAfterOne("record") =>
        ret.val = <<FALSE, Some(HashMismatchMsg(tlog[1].index))>>

\* Positions other than i do not refer to the dict position i refers to.
RecordUnshared(i) ==
    \A j \in Positions \ {i} : chain[j + 1].record /= chain[i + 1].record

\* C3 where the mutated dict is stored in the one block only.
TamperDetectionUnshared ==
    (ValidatedAfterOne("record") /\ RecordUnshared(tlog[1].index)) =>
        ret.val = <<FALSE, Some(HashMismatchMsg(tlog[1].index))>>

\* C4. Broken-link detection: after previous_hash of the block at position
\* i >= 1 of an untampered chain is set to a value other than its
\* predecessor's hash, validate() returns ok=false with the broken-link
\* reason naming index i, although the block's hash is no longer the hash
\* recomputed from its fields either.
BrokenLinkDetection ==
    ValidatedAfterOne("previous_hash") =>
        /\ ret.val = <<FALSE, Some(BrokenLinkMsg(tlog[1].index))>>
        /\ ret.val /= <<FALSE, Some(HashMismatchMsg(tlog[1].index))>>
        /\ HashMismatch(chain[tlog[1].index + 1], heap)

BrokenLinkDetectionWitness ==
    /\ ValidatedAfterOne("previous_hash")
    /\ Len(chain) >= 3
    /\ tlog[1].index = 2

\* The positions at which one of validate's two checks fails.
Failing ==
    {i \in Positions :
        \/ LinkBroken(chain[i], chain[i + 1])
        \/ HashMismatch(chain[i + 1], heap)}

\* C10. Validation order: validate() reports the smallest position at which
\* a check fails, as a broken link when the linkage check fails there (also
\* when both checks fail), and ok=true when no position fails.
FirstFailureWins ==
    ret.op = "validate" =>
        IF Failing = {} THEN ret.val = <<TRUE, None>>
        ELSE LET i == CHOOSE m \in Failing : \A n \in Failing : m <= n
             IN  ret.val =
                     <<FALSE,
                       Some(IF LinkBroken(chain[i], chain[i + 1])
                            THEN BrokenLinkMsg(i)
                            ELSE HashMismatchMsg(i))>>

FirstFailureWinsWitness ==
    /\ ret.op = "validate"
    /\ Cardinality(Failing) >= 2
    /\ \E i \in Failing :
          /\ \A n \in Failing : i <= n
          /\ LinkBroken(chain[i], chain[i + 1])
          /\ HashMismatch(chain[i + 1], heap)

\* The result of making the call of r again on chain c, dicts h and index pi.
Again(r, pi, c, h) ==
    CASE r.op = "get_all_records" -> get_all_records(pi, c, r.pid)
      [] r.op = "get_latest_record" -> get_latest_record(pi, c, r.pid)
      [] r.op = "validate" -> validate(c, h)

\* A step of get_all_records, get_latest_record or validate.
IsRead ==
    /\ ret'.op \in {"get_all_records", "get_latest_record", "validate"}
    /\ calls' = calls
    /\ tlog' = tlog

\* C11. Read-only operations: get_all_records, get_latest_record and
\* validate leave chain, the records it refers to and _patient_index as they
\* were, in every state (a lookup of an unknown patient id creates no index
\* entry, a tampered chain is validated without being changed), and the
\* same call made again right after gives the same result.
ReadOnly ==
    [][IsRead =>
        /\ chain' = chain
        /\ heap' = heap
        /\ patient_index' = patient_index
        /\ Again(ret', patient_index', chain', heap') = ret'.val]_vars

ReadOnlyWitness ==
    /\ ret.op = "get_all_records"
    /\ ret.pid \notin DOMAIN patient_index
    /\ ret.val = <<>>
    /\ Len(chain) >= 2
    /\ validate(chain, heap)[1] = FALSE

\* C12. Failed append: when add_record(p, r) fails because r cannot be
\* serialized, the TypeError reaches the caller and chain and _patient_index
\* are as they were before the call (no entry is made for a p not seen
\* before); and an add_record that returns has stored a serializable record.
FailedAppendNoEffect ==
    [][/\ ret'.op = "add_record_raised" =>
            /\ ret'.val = "TypeError"
            /\ chain' = chain
            /\ patient_index' = patient_index
            /\ calls' = calls
       /\ IsAddRecord =>
            JsonSerializable(heap'[calls'[Len(calls')].record])]_vars

FailedAppendNoEffectWitness ==
    /\ ret.op = "add_record_raised"
    /\ ret.pid \notin DOMAIN patient_index
    /\ Len(chain) >= 2

\* C13. Exclusive ownership: whatever the caller does afterwards with the
\* dict it passed to add_record or with a Block it was returned, the chain
\* stores every block as add_record returned it, with the record contents
\* its hash was computed from, and validate() accepts the chain.
ExclusiveOwnership ==
    /\ \A n \in 1..Len(calls) :
          LET b == calls[n].block
          IN  /\ chain[b.index + 1] = b
              /\ Recomputed(chain[b.index + 1]) = b.hash
    /\ validate(chain, heap) = <<TRUE, None>>

\* C14. Genesis: right after Blockchain() the chain holds exactly one block;
\* then and after any sequence of add_record calls, position 0 holds the
\* block made at construction: index 0, patient_id "0", record
\* {"note": "Genesis Block"}, previous_hash "0", the timestamp of the
\* construction, and as hash compute_hash of these fields.
GenesisBlock ==
    /\ calls = <<>> => Len(chain) = 1
    /\ chain[1].index = 0
    /\ chain[1].patient_id = "0"
    /\ DictEq(RecordOf(heap, chain[1]), << <<"note", Str("Genesis Block")>> >>)
    /\ chain[1].previous_hash = "0"
    /\ chain[1].timestamp = Timestamps[1]
    /\ chain[1].hash =
          compute_hash(0, Timestamps[1], "0",
                       << <<"note", Str("Genesis Block")>> >>, "0")

GenesisBlockWitness ==
    /\ Len(chain) >= 4
    /\ "0" \in DOMAIN patient_index
    /\ now > 1

\* C15. compute_hash is a function of the values of its arguments: the
\* digest of a call is the digest of every call with the same index,
\* timestamp, patient_id and previous_hash and a record that is the same
\* mapping, in whatever order its keys and the keys of its nested dicts were
\* inserted; and the call leaves the chain, the records and _patient_index
\* of the Blockchain as they were.
HashOfValues ==
    ret.op = "compute_hash" =>
        /\ \A record \in HashRecords :
              DictEq(record, ret.val.args.record) =>
                  compute_hash(ret.val.args.index, ret.val.args.timestamp,
                               ret.pid, record,
                               ret.val.args.previous_hash) = ret.val.digest
        /\ heap = <<GenesisRecord>>
        /\ chain = <<create_genesis_block(Timestamps[1], heap)>>
        /\ patient_index = EmptyIndex

HashOfValuesWitness ==
    /\ ret.op = "compute_hash"
    /\ ret.val.args.record = RecM(Drug21)
    /\ DictEq(RecN(Drug12), ret.val.args.record)
    /\ RecN(Drug12) /= ret.val.args.record

\* C16. Interleaved writers: add_record is a sequence of steps (read the
\* last hash, read the length and build the block, append, update the
\* index). As long as no call began while another was under way, every
\* block is at the position its index names, stores its predecessor's hash,
\* and validate() accepts the chain; when two calls interleave, a state is
\* reached where two blocks have the same index and the same previous_hash
\* and validate() reports a broken link.
SerializedWritersSafe ==
    ~overlapped =>
        /\ \A i \in 0..Len(chain) - 1 : chain[i + 1].index = i
        /\ \A i \in Positions :
              chain[i + 1].previous_hash = chain[i].hash
        /\ validate(chain, heap) = <<TRUE, None>>

InterleavedWritersBreak ==
    /\ overlapped
    /\ \E i \in Positions :
          /\ i >= 2
          /\ chain[i + 1].index = chain[i].index
          /\ chain[i + 1].index /= i
          /\ chain[i + 1].previous_hash = chain[i].previous_hash
          /\ chain[i + 1].previous_hash /= chain[i].hash
          /\ validate(chain, heap) = <<FALSE, Some(BrokenLinkMsg(i))>>

\* The message of an accepted tamper of block idx.
TamperedMsg(idx) ==
    "Tampered block " \o ToString(idx) \o ". Now validate to see failure."

\* Choice 6 writes only what it announces: an accepted tamper names a block
\* after the genesis block and changes nothing but a diagnosis, treatment or
\* notes entry of a record; a rejected one changes nothing.
TamperDemoGuarded ==
    /\ tlog' /= tlog =>
          /\ tlog'[Len(tlog')].index \in 1..Len(chain) - 1
          /\ ret'.val = TamperedMsg(tlog'[Len(tlog')].index)
          /\ chain' = chain
          /\ heap'[chain[1].record] = heap[chain[1].record]
          /\ \A r \in DOMAIN heap :
             \A k \in DictKeys(heap'[r]) \ TamperFields :
                /\ k \in DictKeys(heap[r])
                /\ DictGet(heap'[r], k) = DictGet(heap[r], k)
    /\ ret'.op = "tamper" /\ tlog' = tlog =>
          /\ chain' = chain
          /\ heap' = heap

\* An accepted tamper of a chain validate() accepted makes validate() fail.
TamperDemoFails ==
    tlog' /= tlog /\ validate(chain, heap)[1] =>
        validate(chain', heap')[1] = FALSE

\* The same, for a tamper that writes another value than the one stored.
TamperDemoFailsIfChanged ==
    [][tlog' /= tlog /\ tlog'[Len(tlog')].changed
       /\ validate(chain, heap)[1] =>
            validate(chain', heap')[1] = FALSE]_vars

\* C17. Tamper demo: menu choice 6 modifies a block only when the index
\* entered satisfies 1 <= idx < len(chain) and the field is diagnosis,
\* treatment or notes (the genesis block is never modified, a rejected
\* input leaves the chain as it was), and after every accepted tamper of a
\* chain that was valid validate() returns ok = false.
TamperDemo == [][TamperDemoGuarded /\ TamperDemoFails]_vars

TamperDemoGuards == [][TamperDemoGuarded]_vars

\* C18. Invalidity persists under appends: add_record succeeds on a chain
\* validate() rejects, and validate() then rejects the longer chain with the
\* same index and the same kind of failure.
InvalidityPersists ==
    [][IsAddRecord /\ validate(chain, heap)[1] = FALSE =>
        validate(chain', heap') = validate(chain, heap)]_vars

InvalidityPersistsWitness ==
    /\ ret.op = "add_record"
    /\ tlog /= <<>>
    /\ tlog[Len(tlog)].len < Len(chain)
    /\ validate(chain, heap)[1] = FALSE

\* The record of the block at position tlog[1].index was changed and its
\* hash then overwritten with compute_hash of the fields it now stores;
\* nothing else was tampered with, and no block was added since.
HashRewritten ==
    /\ Len(tlog) = 2
    /\ tlog[1].kind = "record"
    /\ tlog[1].changed
    /\ tlog[2].kind = "hash"
    /\ tlog[2].index = tlog[1].index
    /\ tlog[2].len = Len(chain)
    /\ chain[tlog[1].index + 1].hash = Recomputed(chain[tlog[1].index + 1])

\* What validate() gives when the only failure is the link to position i.
OnlyLinkAfter(i) ==
    IF i < Len(chain) - 1
    THEN <<FALSE, Some(BrokenLinkMsg(i + 1))>>
    ELSE <<TRUE, None>>

\* C19. A tamper that also rewrites the hash: after chain[i].record (i >= 1)
\* is changed and chain[i].hash overwritten with compute_hash of the changed
\* fields, validate() reports a broken link at index i + 1 when i is not the
\* last position, and returns (True, None) when it is.
HashRewriteSeenByLink ==
    HashRewritten => validate(chain, heap) = OnlyLinkAfter(tlog[1].index)

\* C19 where the changed dict is stored in the one block only.
HashRewriteSeenByLinkUnshared ==
    (HashRewritten /\ RecordUnshared(tlog[1].index)) =>
        validate(chain, heap) = OnlyLinkAfter(tlog[1].index)

HashRewriteSeenByLinkUnsharedWitness ==
    /\ HashRewritten
    /\ RecordUnshared(tlog[1].index)
    /\ tlog[1].index < Len(chain) - 1

\* chain[0].hash was overwritten while the chain held a second block.
GenesisHashChangedUnderSuccessor ==
    \E n \in 1..Len(tlog) : tlog[n].kind = "genesis_hash" /\ tlog[n].len >= 2

\* C20. The genesis block's content is outside validation: on a chain not
\* tampered with otherwise, changes of chain[0].record, timestamp,
\* patient_id, index or previous_hash leave validate() returning
\* (True, None); a change of chain[0].hash makes validate() report a broken
\* link at index 1 when the chain had length >= 2, and leaves it returning
\* (True, None) when the chain had length 1.
GenesisOutsideValidation ==
    validate(chain, heap) =
        IF GenesisHashChangedUnderSuccessor
        THEN <<FALSE, Some(BrokenLinkMsg(1))>>
        ELSE <<TRUE, None>>

GenesisOutsideValidationWitness ==
    /\ ret.op = "validate"
    /\ ret.val = <<TRUE, None>>
    /\ Len(chain) >= 2
    /\ Len(tlog) = 2
    /\ tlog[1].len >= 2
    /\ chain[1].hash /= Recomputed(chain[1])

GenesisHashWitness ==
    /\ ret.op = "validate"
    /\ ret.val = <<FALSE, Some(BrokenLinkMsg(1))>>
    /\ GenesisHashChangedUnderSuccessor

=============================================================================
